---- MODULE Spec2Model ----
(***************************************************************************)
(* asciidocpy/document.py: a tree of document elements, each rendering     *)
(* itself to AsciiDoc text.                                                *)
(*                                                                         *)
(* Python objects live in a heap (a sequence of records, the index of a    *)
(* record being the object's identity), so that a child sequence holds     *)
(* references and the same object can be appended twice.  Python values    *)
(* held in fields are tagged records: text is a sequence of one-character  *)
(* strings, so that prefixes, separators and line breaks can be inspected. *)
(* An exception raised by a call is a value whose tag is the exception's   *)
(* class.                                                                  *)
(***************************************************************************)
EXTENDS Integers, Sequences, FiniteSets, TLC

VARIABLES heap, call, ret

vars == <<heap, call, ret>>

(***************************************************************************)
(* Bounds of the model.                                                    *)
(***************************************************************************)
MaxObj == 3
MaxLinks == 2
MaxLevel == 3
MaxItems == 2
MaxCols == 2
MaxRows == 2

(***************************************************************************)
(* Python values.                                                          *)
(***************************************************************************)
PyStr(s) == [ty |-> "str", s |-> s, n |-> 0]
PyInt(n) == [ty |-> "int", s |-> <<>>, n |-> n]
PyNone == [ty |-> "NoneType", s |-> <<>>, n |-> 0]
Ref(id) == [ty |-> "ref", s |-> <<>>, n |-> id]
Raise(e) == [ty |-> e, s |-> <<>>, n |-> 0]

Exceptions == {"TypeError", "RecursionError"}
IsRaise(v) == v.ty \in Exceptions
IsText(v) == v.ty = "str"

\* bool(v): None, 0 and "" are false.
Truthy(v) ==
  CASE v.ty = "str" -> v.s # <<>>
    [] v.ty = "int" -> v.n # 0
    [] OTHER -> FALSE

Digit(d) ==
  CASE d = 0 -> "0" [] d = 1 -> "1" [] d = 2 -> "2" [] d = 3 -> "3"
    [] d = 4 -> "4" [] d = 5 -> "5" [] d = 6 -> "6" [] d = 7 -> "7"
    [] d = 8 -> "8" [] OTHER -> "9"

RECURSIVE NatDigits(_)
NatDigits(n) ==
  IF n < 10 THEN <<Digit(n)>> ELSE NatDigits(n \div 10) \o <<Digit(n % 10)>>

IntDigits(n) == IF n < 0 THEN <<"-">> \o NatDigits(-n) ELSE NatDigits(n)

\* The text an f-string field or str() gives for a value: f"{v}".
Format(v) ==
  CASE v.ty = "str" -> v.s
    [] v.ty = "int" -> IntDigits(v.n)
    [] OTHER -> <<"N", "o", "n", "e">>

NL == "\n"

RECURSIVE Concat(_, _)
Concat(sep, texts) ==
  IF texts = <<>> THEN <<>>
  ELSE IF Len(texts) = 1 THEN texts[1]
  ELSE texts[1] \o sep \o Concat(sep, Tail(texts))

\* sep.join(vals): TypeError unless every element is a str.
Join(sep, vals) ==
  IF \E i \in 1..Len(vals) : ~IsText(vals[i])
  THEN Raise("TypeError")
  ELSE PyStr(Concat(sep, [i \in 1..Len(vals) |-> vals[i].s]))

\* s * n for a one-character s: the empty text for n <= 0, TypeError when n
\* is not an int.
RECURSIVE Times(_, _)
Times(c, n) == IF n <= 0 THEN <<>> ELSE <<c>> \o Times(c, n - 1)

Repeat(c, v) == IF v.ty = "int" THEN PyStr(Times(c, v.n)) ELSE Raise("TypeError")

\* The first exception among the results of a comprehension, in order.
FirstRaise(vals) ==
  vals[CHOOSE i \in 1..Len(vals) :
         IsRaise(vals[i]) /\ \A j \in 1..(i - 1) : ~IsRaise(vals[j])]

HasRaise(vals) == \E i \in 1..Len(vals) : IsRaise(vals[i])

(***************************************************************************)
(* The element classes: constructors.                                      *)
(***************************************************************************)
Section(title, level) ==
  [kind |-> "Section", title |-> title, level |-> level, content |-> <<>>]
Paragraph(text) == [kind |-> "Paragraph", text |-> text]
UnorderedList(items) == [kind |-> "UnorderedList", items |-> items]
OrderedList(items) == [kind |-> "OrderedList", items |-> items]
Table(header, rows) == [kind |-> "Table", header |-> header, rows |-> rows]
Image(src, alt_text, title, width, height, align) ==
  [kind |-> "Image", src |-> src, alt_text |-> alt_text, title |-> title,
   width |-> width, height |-> height, align |-> align]
Blockquote(text, author, source) ==
  [kind |-> "Blockquote", text |-> text, author |-> author, source |-> source]
HorizontalLine == [kind |-> "HorizontalLine"]
Reference(key, authors, title, publisher, year) ==
  [kind |-> "Reference", key |-> key, authors |-> authors, title |-> title,
   publisher |-> publisher, year |-> year]
Document == [kind |-> "Document", content |-> <<>>]

IsContainer(o) == o.kind \in {"Section", "Document"}

(***************************************************************************)
(* render() of the leaf classes.                                           *)
(***************************************************************************)
RenderParagraph(o) == o.text

RenderUnorderedList(o) ==
  Join(<<NL>>, [i \in 1..Len(o.items) |-> PyStr(<<"*", " ">> \o Format(o.items[i]))])

\* Mutant: the bullet of the unordered list.
RenderOrderedListStar(o) ==
  Join(<<NL>>, [i \in 1..Len(o.items) |-> PyStr(<<"*", " ">> \o Format(o.items[i]))])

RenderOrderedList(o) ==
  Join(<<NL>>, [i \in 1..Len(o.items) |-> PyStr(<<".", " ">> \o Format(o.items[i]))])

TableRow(row) ==
  PyStr(<<"|", " ">> \o
        Concat(<<" ", "|", " ">>, [j \in 1..Len(row) |-> Format(row[j])]))

\* Mutant: the conditional binds only the header row, so that an empty
\* header leaves the fence followed by a second fence line.
RenderTableConditionalBindsTighter(o) ==
  LET fence == <<"|", "=", "=", "=">>
      joined == Join(<<" ", "|", " ">>, o.header)
      body == Join(<<NL>>, [i \in 1..Len(o.rows) |-> TableRow(o.rows[i])])
  IN IF o.header # <<>> /\ IsRaise(joined) THEN joined
     ELSE PyStr(fence \o <<NL>> \o <<"|", " ">> \o
                (IF o.header # <<>> THEN joined.s \o <<NL>> ELSE fence \o <<NL>>) \o
                body.s \o <<NL>> \o fence)

RenderTable(o) ==
  LET fence == <<"|", "=", "=", "=">>
      joined == Join(<<" ", "|", " ">>, o.header)
      header_part ==
        IF o.header # <<>>
        THEN IF IsRaise(joined) THEN joined
             ELSE PyStr(fence \o <<NL>> \o <<"|", " ">> \o joined.s \o <<NL>>)
        ELSE PyStr(fence \o <<NL>>)
      body == Join(<<NL>>, [i \in 1..Len(o.rows) |-> TableRow(o.rows[i])])
  IN IF IsRaise(header_part) THEN header_part
     ELSE PyStr(header_part.s \o body.s \o <<NL>> \o fence)

RenderImage(o) ==
  LET opt1 == IF Truthy(o.title)
              THEN <<PyStr(<<"t", "i", "t", "l", "e", "=", "\"">> \o
                           Format(o.title) \o <<"\"">>)>>
              ELSE <<>>
      opt2 == IF Truthy(o.width)
              THEN <<PyStr(<<"w", "i", "d", "t", "h", "=">> \o Format(o.width))>>
              ELSE <<>>
      opt3 == IF Truthy(o.height)
              THEN <<PyStr(<<"h", "e", "i", "g", "h", "t", "=">> \o Format(o.height))>>
              ELSE <<>>
      opt4 == IF Truthy(o.align)
              THEN <<PyStr(<<"a", "l", "i", "g", "n", "=">> \o Format(o.align))>>
              ELSE <<>>
      options_str == Join(<<",">>, opt1 \o opt2 \o opt3 \o opt4)
      image_line == <<"i", "m", "a", "g", "e", ":", ":">> \o Format(o.src) \o
                    <<"[">> \o Format(o.alt_text)
  IN PyStr(image_line \o
           (IF Truthy(options_str) THEN <<",", " ">> \o options_str.s ELSE <<>>) \o
           <<"]">>)

\* Mutant: the attribution line only when author and source are both set.
RenderBlockquoteNeedsBoth(o) ==
  LET bar == <<"_", "_", "_", "_">>
      quote == bar \o <<NL>> \o Format(o.text) \o <<NL>> \o bar
      attrib_line == <<"[", "q", "u", "o", "t", "e", ",", " ">> \o Format(o.author) \o
                     <<",", " ">> \o Format(o.source) \o <<"]">>
  IN IF Truthy(o.author) /\ Truthy(o.source)
     THEN PyStr(attrib_line \o <<NL>> \o quote)
     ELSE PyStr(quote)

RenderBlockquote(o) ==
  LET bar == <<"_", "_", "_", "_">>
      quote == bar \o <<NL>> \o Format(o.text) \o <<NL>> \o bar
      attrib_line == <<"[", "q", "u", "o", "t", "e", ",", " ">> \o Format(o.author) \o
                     <<",", " ">> \o Format(o.source) \o <<"]">>
  IN IF Truthy(o.author) \/ Truthy(o.source)
     THEN PyStr(attrib_line \o <<NL>> \o quote)
     ELSE PyStr(quote)

RenderHorizontalLine(o) == PyStr(<<"-", "-", "-", "-">>)

RenderReference(o) ==
  PyStr(<<"-", " ", "[", "[", "[">> \o Format(o.key) \o <<"]", "]", "]", " ">> \o
        Format(o.authors) \o <<".", " ">> \o Format(o.title) \o <<".", " ">> \o
        Format(o.publisher) \o <<".", " ">> \o Format(o.year) \o <<".">>)

(***************************************************************************)
(* render() of the containers.  depth is the number of frames the          *)
(* interpreter still allows: a chain of distinct objects is never longer   *)
(* than the heap, so only a cycle of child links exhausts it.              *)
(***************************************************************************)
RECURSIVE Render(_, _, _)

\* Mutant: no space between the heading marker and the title.
RenderSectionNoSpace(h, id, depth) ==
  LET o == h[id]
      prefix == Repeat("=", o.level)
      items == [i \in 1..Len(o.content) |-> Render(h, o.content[i], depth - 1)]
  IN IF IsRaise(prefix) THEN prefix
     ELSE IF HasRaise(items) THEN FirstRaise(items)
     ELSE Join(<<NL>>, <<PyStr(prefix.s \o Format(o.title))>> \o items)

RenderSection(h, id, depth) ==
  LET o == h[id]
      prefix == Repeat("=", o.level)
      items == [i \in 1..Len(o.content) |-> Render(h, o.content[i], depth - 1)]
  IN IF IsRaise(prefix) THEN prefix
     ELSE IF HasRaise(items) THEN FirstRaise(items)
     ELSE Join(<<NL>>, <<PyStr(prefix.s \o <<" ">> \o Format(o.title))>> \o items)

\* Mutant: every child's output is ended by a newline.
RenderDocumentTrailingNewline(h, id, depth) ==
  LET o == h[id]
      items == [i \in 1..Len(o.content) |-> Render(h, o.content[i], depth - 1)]
  IN IF HasRaise(items) THEN FirstRaise(items)
     ELSE IF \E i \in 1..Len(items) : ~IsText(items[i]) THEN Raise("TypeError")
     ELSE PyStr(Concat(<<>>, [i \in 1..Len(items) |-> items[i].s \o <<NL>>]))

RenderDocument(h, id, depth) ==
  LET o == h[id]
      items == [i \in 1..Len(o.content) |-> Render(h, o.content[i], depth - 1)]
  IN IF HasRaise(items) THEN FirstRaise(items) ELSE Join(<<NL>>, items)

Render(h, id, depth) ==
  IF depth <= 0 THEN Raise("RecursionError")
  ELSE LET o == h[id] IN
    CASE o.kind = "Section" -> RenderSection(h, id, depth)
      [] o.kind = "Document" -> RenderDocument(h, id, depth)
      [] o.kind = "Paragraph" -> RenderParagraph(o)
      [] o.kind = "UnorderedList" -> RenderUnorderedList(o)
      [] o.kind = "OrderedList" -> RenderOrderedList(o)
      [] o.kind = "Table" -> RenderTable(o)
      [] o.kind = "Image" -> RenderImage(o)
      [] o.kind = "Blockquote" -> RenderBlockquote(o)
      [] o.kind = "HorizontalLine" -> RenderHorizontalLine(o)
      [] OTHER -> RenderReference(o)

RecursionLimit(h) == Len(h)

RenderOf(h, id) == Render(h, id, RecursionLimit(h))

\* object.__str__: the default text of an object whose class defines none,
\* naming the class and the object's address.
ObjectStr(kind, id) ==
  PyStr(<<"<", kind, " ", "o", "b", "j", "e", "c", "t", " ", "a", "t", " ">> \o
        NatDigits(id) \o <<">">>)

\* str(node): every class but Image defines __str__ as self.render(); str()
\* raises TypeError when __str__ returns something that is not a str.
StrOf(h, id) ==
  IF h[id].kind = "Image" THEN ObjectStr("Image", id)
  ELSE LET r == RenderOf(h, id)
       IN IF IsRaise(r) \/ IsText(r) THEN r ELSE Raise("TypeError")

(***************************************************************************)
(* Input domains.                                                          *)
(***************************************************************************)
Titles == {PyStr(<<"T">>), PyInt(7)}
Levels == {PyInt(0), PyInt(MaxLevel)}
ParagraphTexts == {PyStr(<<"p">>), PyStr(<<"q", NL, "r">>), PyInt(5)}
TreeTexts == {PyStr(<<"p">>)}

SeqsUpTo(S, n) == UNION {[1..k -> S] : k \in 0..n}

ItemValues == {PyStr(<<"a">>), PyStr(<<"b", NL, "c">>), PyInt(12), PyNone}
HeaderValues == {PyStr(<<"h">>), PyInt(3)}
CellValues == {PyStr(<<"x">>), PyInt(40)}
Attribution == {PyNone, PyStr(<<>>), PyStr(<<"A">>)}

Lists ==
  {UnorderedList(items) : items \in SeqsUpTo(ItemValues, MaxItems)} \cup
  {OrderedList(items) : items \in SeqsUpTo(ItemValues, MaxItems)}

Tables ==
  {Table(header, rows) :
     header \in SeqsUpTo(HeaderValues, MaxCols),
     rows \in SeqsUpTo(SeqsUpTo(CellValues, MaxCols), MaxRows)}

Images ==
  {Image(PyStr(<<"s">>), alt_text, title, width, height, align) :
     alt_text \in {PyStr(<<"A">>), PyStr(<<>>)},
     title \in {PyNone, PyStr(<<"T">>), PyStr(<<>>)},
     width \in {PyNone, PyInt(80)},
     height \in {PyNone, PyInt(6)},
     align \in {PyNone, PyStr(<<"c">>)}}

Blockquotes ==
  {Blockquote(text, author, source) :
     text \in {PyStr(<<"q">>), PyStr(<<>>)},
     author \in Attribution,
     source \in Attribution}

References ==
  {Reference(PyStr(<<"k">>), PyStr(<<"D">>), title, PyStr(<<"P">>), year) :
     title \in Titles, year \in {PyInt(2020), PyStr(<<"y">>)}}

Paragraphs == {Paragraph(text) : text \in ParagraphTexts}

\* The elements constructed for the trees: a few of each shape.
TreeSections == {Section(PyInt(7), PyInt(2))}
TreeParagraphs == {Paragraph(text) : text \in TreeTexts}

Leaves ==
  Paragraphs \cup Lists \cup Tables \cup Images \cup Blockquotes \cup
  References \cup {HorizontalLine}

TreeLeaves == {Table(<<>>, <<>>)}

(***************************************************************************)
(* Calls.  call records the last call made and its arguments, ret what it  *)
(* returned (or raised).                                                   *)
(***************************************************************************)
Call(op, self, arg, title, level, given) ==
  [op |-> op, self |-> self, arg |-> arg, title |-> title, level |-> level,
   given |-> given]

Ids == 1..Len(heap)

RECURSIVE Sum(_)
Sum(ns) == IF ns = <<>> THEN 0 ELSE Head(ns) + Sum(Tail(ns))

\* The number of child references held in the heap.
Links(h) ==
  Sum([id \in 1..Len(h) |-> IF IsContainer(h[id]) THEN Len(h[id].content) ELSE 0])
Containers == {id \in Ids : IsContainer(heap[id])}

\* x = Cls(...): a new object, referenced by the caller only.
New(o, op) ==
  /\ Len(heap) < MaxObj
  /\ heap' = Append(heap, o)
  /\ call' = Call(op, Len(heap) + 1, 0, PyNone, PyNone, FALSE)
  /\ ret' = Ref(Len(heap) + 1)

\* doc = Document(): the program builds one document.
NewDocument ==
  /\ \A id \in Ids : heap[id].kind # "Document"
  /\ New(Document, "Document")
NewSection == \E o \in TreeSections : New(o, "Section")
NewParagraph == \E o \in TreeParagraphs : New(o, "Paragraph")
NewLeaf == \E o \in TreeLeaves : New(o, "leaf")

\* doc.add_section(title, level) and doc.add_section(title).
\* Mutant: the new Section is put before the earlier children.
AddSectionPrepends(doc, title, level) ==
  LET section == Len(heap) + 1
  IN /\ heap' = [Append(heap, Section(title, level)) EXCEPT
                   ![doc].content = <<section>> \o @]
     /\ ret' = Ref(section)

\* Mutant: the document appends itself instead of the new Section.
AddSectionAppendsSelf(doc, title, level) ==
  LET section == Len(heap) + 1
  IN /\ heap' = [Append(heap, Section(title, level)) EXCEPT
                   ![doc].content = Append(@, doc)]
     /\ ret' = Ref(section)

AddSectionTo(doc, title, level) ==
  LET section == Len(heap) + 1
  IN /\ heap' = [Append(heap, Section(title, level)) EXCEPT
                   ![doc].content = Append(@, section)]
     /\ ret' = Ref(section)

AddSection ==
  \E doc \in Ids, title \in {PyStr(<<"T">>)}, lv \in Levels, given \in BOOLEAN :
    /\ heap[doc].kind = "Document"
    /\ Len(heap) < MaxObj
    /\ Links(heap) < MaxLinks
    /\ AddSectionTo(doc, title, IF given THEN lv ELSE PyInt(1))
    /\ call' = Call("add_section", doc, 0, title, IF given THEN lv ELSE PyNone, given)

\* c.content.append(x), for any container c and any object x at hand.
ContentAppend(c, x) ==
  heap' = [heap EXCEPT ![c].content = Append(@, x)]

AppendChild ==
  \E c \in Containers, x \in Ids :
    /\ Links(heap) < MaxLinks
    /\ ContentAppend(c, x)
    /\ call' = Call("append", c, x, PyNone, PyNone, FALSE)
    /\ ret' = PyNone

CallRender ==
  \E id \in Ids :
    /\ call' = Call("render", id, 0, PyNone, PyNone, FALSE)
    /\ ret' = RenderOf(heap, id)
    /\ UNCHANGED heap

CallStr ==
  \E id \in Ids :
    /\ call' = Call("str", id, 0, PyNone, PyNone, FALSE)
    /\ ret' = StrOf(heap, id)
    /\ UNCHANGED heap

\* The module is imported: no object exists yet.
Init ==
  /\ heap = <<>>
  /\ call = Call("import", 0, 0, PyNone, PyNone, FALSE)
  /\ ret = PyNone

Next ==
  \/ NewDocument
  \/ AddSection
  \/ NewSection
  \/ NewParagraph
  \/ NewLeaf
  \/ AppendChild
  \/ CallRender

Spec == Init /\ [][Next]_vars

\* A single element of a leaf class, constructed from the input domains and
\* then rendered or converted to text.
InitLeaf ==
  \E o \in Leaves :
    /\ heap = <<o>>
    /\ call = Call(o.kind, 1, 0, PyNone, PyNone, FALSE)
    /\ ret = Ref(1)

NextLeaf ==
  \/ CallRender
  \/ CallStr

SpecLeaf == InitLeaf /\ [][NextLeaf]_vars

(***************************************************************************)
(* Text helpers of the properties.                                         *)
(***************************************************************************)
\* The first k texts of outs, each after the first preceded by a newline.
RECURSIVE NewlineJoined(_, _)
NewlineJoined(outs, k) ==
  IF k = 0 THEN <<>>
  ELSE IF k = 1 THEN outs[1].s
  ELSE NewlineJoined(outs, k - 1) \o <<"\n">> \o outs[k].s

\* The first k texts of outs, every one preceded by a newline.
RECURSIVE EachOnNewLine(_, _)
EachOnNewLine(outs, k) ==
  IF k = 0 THEN <<>> ELSE EachOnNewLine(outs, k - 1) \o <<"\n">> \o outs[k].s

\* The first k cells, separated by " | ".
RECURSIVE Piped(_, _)
Piped(cells, k) ==
  IF k = 0 THEN <<>>
  ELSE IF k = 1 THEN Format(cells[1])
  ELSE Piped(cells, k - 1) \o <<" ", "|", " ">> \o Format(cells[k])

\* s cut at its newlines.
RECURSIVE Split(_)
Split(s) ==
  IF \E i \in 1..Len(s) : s[i] = "\n"
  THEN LET i == CHOOSE i \in 1..Len(s) :
                  s[i] = "\n" /\ \A j \in 1..(i - 1) : s[j] # "\n"
       IN <<SubSeq(s, 1, i - 1)>> \o Split(SubSeq(s, i + 1, Len(s)))
  ELSE <<s>>

\* The lines of a text: none for the empty text.
LinesOf(s) == IF s = <<>> THEN <<>> ELSE Split(s)

IsInfix(a, b) ==
  \E i \in 0..(Len(b) - Len(a)) : SubSeq(b, i + 1, i + Len(a)) = a

Rendering(kinds) == call.op = "render" /\ heap[call.self].kind \in kinds

ChildOutputs(id) ==
  [i \in 1..Len(heap[id].content) |-> RenderOf(heap, heap[id].content[i])]

AllText(outs) == \A i \in 1..Len(outs) : IsText(outs[i])

(***************************************************************************)
(* C1: Document.render() is the render() outputs of the top-level          *)
(* children, in the order they were added, joined by single newlines, with *)
(* nothing before or after; the empty text for a Document without          *)
(* children.                                                               *)
(***************************************************************************)
DocumentRenderJoinsChildren ==
  Rendering({"Document"}) =>
    LET outs == ChildOutputs(call.self)
    IN AllText(outs) =>
         /\ IsText(ret)
         /\ ret.s = NewlineJoined(outs, Len(outs))
         /\ (outs = <<>> => ret.s = <<>>)

\* add_section, then a Paragraph appended, then render().
DocumentRenderWitness ==
  /\ Rendering({"Document"})
  /\ Len(heap[call.self].content) = 2
  /\ heap[heap[call.self].content[1]].kind = "Section"
  /\ heap[heap[call.self].content[2]].kind = "Paragraph"
  /\ IsText(ret)
  /\ ret.s = RenderOf(heap, heap[call.self].content[1]).s \o <<"\n">> \o
             RenderOf(heap, heap[call.self].content[2]).s

(***************************************************************************)
(* C2: add_section(title, level) constructs a Section with that title and  *)
(* level (level 1 when omitted) and no children, appends it as the last    *)
(* top-level child leaving the earlier children and every other object     *)
(* unchanged, and returns that same Section; what is appended to the       *)
(* returned Section afterwards appears in later Document.render() output.  *)
(***************************************************************************)
AddSectionStep ==
  call'.op = "add_section" =>
    LET doc == call'.self
        section == Len(heap')
    IN /\ Len(heap') = Len(heap) + 1
       /\ heap'[section] =
            [kind |-> "Section", title |-> call'.title,
             level |-> (IF call'.given THEN call'.level ELSE PyInt(1)),
             content |-> <<>>]
       /\ heap'[doc].content = heap[doc].content \o <<section>>
       /\ \A id \in 1..Len(heap) : id # doc => heap'[id] = heap[id]
       /\ ret' = Ref(section)

GrandchildrenRendered ==
  (call'.op = "render" /\ heap'[call'.self].kind = "Document" /\ IsText(ret')) =>
    \A i \in 1..Len(heap'[call'.self].content) :
      LET child == heap'[heap'[call'.self].content[i]]
      IN child.kind = "Section" =>
           \A j \in 1..Len(child.content) :
             /\ IsText(RenderOf(heap', child.content[j]))
             /\ IsInfix(RenderOf(heap', child.content[j]).s, ret'.s)

AddSectionAppendsAndReturns == [][AddSectionStep /\ GrandchildrenRendered]_vars

\* add_section without a level, on a document that already has a child.
AddSectionWitness ==
  /\ call.op = "add_section"
  /\ ~call.given
  /\ Len(heap[call.self].content) = 2
  /\ ret = Ref(heap[call.self].content[2])
  /\ heap[ret.n].level = PyInt(1)

\* A Paragraph appended to the Section add_section returned shows in the
\* Document's output.
AddSectionLaterRenderWitness ==
  /\ Rendering({"Document"})
  /\ IsText(ret)
  /\ \E i \in 1..Len(heap[call.self].content) :
       LET child == heap[heap[call.self].content[i]]
       IN /\ child.kind = "Section"
          /\ child.content # <<>>
          /\ heap[child.content[1]].kind = "Paragraph"

(***************************************************************************)
(* C3: for a Section of level n >= 1, render() starts with exactly n '='   *)
(* characters, a single space and the title; the heading line is followed  *)
(* by the render() output of each child in insertion order, each on a new  *)
(* line, nested Sections included; without children it is the heading      *)
(* line alone.                                                             *)
(***************************************************************************)
SectionRenderHeadingThenChildren ==
  (/\ Rendering({"Section"})
   /\ heap[call.self].level.ty = "int"
   /\ heap[call.self].level.n >= 1) =>
    LET o == heap[call.self]
        n == o.level.n
        t == Format(o.title)
        outs == ChildOutputs(call.self)
        heading == n + 1 + Len(t)
    IN AllText(outs) =>
         /\ IsText(ret)
         /\ Len(ret.s) >= heading
         /\ \A i \in 1..n : ret.s[i] = "="
         /\ ret.s[n + 1] = " "
         /\ SubSeq(ret.s, n + 2, heading) = t
         /\ SubSeq(ret.s, heading + 1, Len(ret.s)) = EachOnNewLine(outs, Len(outs))
         /\ (outs = <<>> => Len(ret.s) = heading)

\* A Section holding a nested Section and one more child is rendered.
SectionRenderWitness ==
  /\ Rendering({"Section"})
  /\ heap[call.self].level.n >= 2
  /\ Len(heap[call.self].content) = 2
  /\ heap[heap[call.self].content[1]].kind = "Section"
  /\ heap[call.self].content[1] # call.self
  /\ heap[heap[call.self].content[2]].kind = "Paragraph"
  /\ IsText(ret)

(***************************************************************************)
(* Ownership.                                                              *)
(***************************************************************************)
ChildrenOf(h, id) ==
  IF IsContainer(h[id]) THEN {h[id].content[i] : i \in 1..Len(h[id].content)} ELSE {}

\* Every child reference held in h, as <<container, position>>.
Slots(h) ==
  UNION {IF IsContainer(h[c]) THEN {<<c, i>> : i \in 1..Len(h[c].content)} ELSE {} :
           c \in 1..Len(h)}

RECURSIVE Closure(_, _, _)
Closure(h, ids, k) ==
  IF k = 0 THEN ids
  ELSE Closure(h, ids \cup UNION {ChildrenOf(h, id) : id \in ids}, k - 1)

\* What is reachable from id through one or more child links.
Descendants(h, id) == Closure(h, ChildrenOf(h, id), Len(h))

Owned(h, id) == \E c \in 1..Len(h) : id \in ChildrenOf(h, c)

TreeShaped(h) ==
  /\ \A a, b \in Slots(h) :
       a # b => h[a[1]].content[a[2]] # h[b[1]].content[b[2]]
  /\ \A id \in 1..Len(h) : id \notin Descendants(h, id)

RenderTerminates(h) ==
  \A id \in 1..Len(h) : RenderOf(h, id).ty # "RecursionError"

(***************************************************************************)
(* C10, as claimed: in every reachable state no element is a child of more *)
(* than one container, or twice of one, and no Section is reachable from   *)
(* itself through child links, so that render() terminates on every node.  *)
(***************************************************************************)
OwnershipAlwaysTreeShaped == TreeShaped(heap) /\ RenderTerminates(heap)

\* The append of the step hands over an element that is already a child of
\* some container, or is the target container or one of its ancestors.
AppendOfOwnedOrAncestor ==
  /\ call'.op = "append"
  /\ \/ Owned(heap, call'.arg)
     \/ call'.arg = call'.self
     \/ call'.self \in Descendants(heap, call'.arg)

(***************************************************************************)
(* C10, amended: a constructor, add_section, and a direct append of an     *)
(* element that is not yet a child of any container and is neither the     *)
(* target container nor one of its ancestors keep ownership tree-shaped,   *)
(* and in a tree-shaped state render() terminates on every node.           *)
(***************************************************************************)
OwnershipTreeShapedUnlessAliased ==
  [][/\ (TreeShaped(heap) /\ ~AppendOfOwnedOrAncestor) => TreeShaped(heap')
     /\ TreeShaped(heap') => RenderTerminates(heap')]_vars

\* A tree of depth two built by add_section and an append of a new element.
OwnershipWitness ==
  /\ call.op = "append"
  /\ TreeShaped(heap)
  /\ heap[call.self].kind = "Section"
  /\ Owned(heap, call.self)
  /\ \E id \in 1..Len(heap) :
       heap[id].kind = "Document" /\ call.arg \in Descendants(heap, id)

(***************************************************************************)
(* C4: Table.render() is '|===' and a newline; then, only if the header is *)
(* not empty, '| ' with the header labels joined by ' | ' and a newline;   *)
(* then one line per row, '| ' with the row's cells converted to text and  *)
(* joined by ' | ', the rows newline-joined in input order; then a newline *)
(* and '|==='.  An empty header and no rows give exactly '|===\n\n|===',   *)
(* and a row whose cell count differs from the header's is rendered as is. *)
(***************************************************************************)
TableRenderLayout ==
  (Rendering({"Table"}) /\ AllText(heap[call.self].header)) =>
    LET o == heap[call.self]
        fence == <<"|", "=", "=", "=">>
        rowlines == [i \in 1..Len(o.rows) |->
                       PyStr(<<"|", " ">> \o Piped(o.rows[i], Len(o.rows[i])))]
        headline == IF o.header = <<>> THEN <<>>
                    ELSE <<"|", " ">> \o Piped(o.header, Len(o.header)) \o <<"\n">>
    IN /\ IsText(ret)
       /\ ret.s = fence \o <<"\n">> \o headline \o
                  NewlineJoined(rowlines, Len(rowlines)) \o <<"\n">> \o fence
       /\ (o.header = <<>> /\ o.rows = <<>>) =>
            ret.s = <<"|", "=", "=", "=", "\n", "\n", "|", "=", "=", "=">>

\* A table with a header and two rows, one of them of another length than
\* the header, is rendered.
TableRenderWitness ==
  /\ Rendering({"Table"})
  /\ IsText(ret)
  /\ heap[call.self].header # <<>>
  /\ Len(heap[call.self].rows) = 2
  /\ \E i \in 1..2 : Len(heap[call.self].rows[i]) # Len(heap[call.self].header)

(***************************************************************************)
(* C5: Image.render() is 'image::<src>[<alt_text>', then for each of       *)
(* title, width, height, align that is present, in that order, ', ' and a  *)
(* 'key=value' token (the title's value in double quotes), then ']': every *)
(* token, the second and later ones too, is preceded by ', '.              *)
(***************************************************************************)
ImageTokensCommaSpace ==
  Rendering({"Image"}) =>
    LET o == heap[call.self]
        token(present, key, value) ==
          IF present THEN <<",", " ">> \o key \o <<"=">> \o value ELSE <<>>
    IN /\ IsText(ret)
       /\ ret.s = <<"i", "m", "a", "g", "e", ":", ":">> \o Format(o.src) \o <<"[">> \o
                  Format(o.alt_text) \o
                  token(Truthy(o.title), <<"t", "i", "t", "l", "e">>,
                        <<"\"">> \o Format(o.title) \o <<"\"">>) \o
                  token(Truthy(o.width), <<"w", "i", "d", "t", "h">>, Format(o.width)) \o
                  token(Truthy(o.height), <<"h", "e", "i", "g", "h", "t">>,
                        Format(o.height)) \o
                  token(Truthy(o.align), <<"a", "l", "i", "g", "n">>, Format(o.align)) \o
                  <<"]">>

(***************************************************************************)
(* C6: Blockquote.render() is the text between two lines '____'; exactly   *)
(* when author or source is present (not empty, not None) a line           *)
(* '[quote, <author>, <source>]' precedes it, with both slots always       *)
(* filled: an absent one shows as the text conversion of the absent value. *)
(***************************************************************************)
BlockquoteRenderLayout ==
  Rendering({"Blockquote"}) =>
    LET o == heap[call.self]
        Present(v) == v # PyNone /\ v # PyStr(<<>>)
        slot(v) == IF v = PyNone THEN <<"N", "o", "n", "e">> ELSE v.s
        lines == LinesOf(ret.s)
        k == Len(lines)
        attributed == Present(o.author) \/ Present(o.source)
    IN /\ IsText(ret)
       /\ k = (IF attributed THEN 4 ELSE 3)
       /\ lines[k - 2] = <<"_", "_", "_", "_">>
       /\ lines[k - 1] = o.text.s
       /\ lines[k] = <<"_", "_", "_", "_">>
       /\ attributed =>
            lines[1] = <<"[", "q", "u", "o", "t", "e", ",", " ">> \o slot(o.author) \o
                       <<",", " ">> \o slot(o.source) \o <<"]">>

\* A quote with a source and no author is rendered: the author's slot
\* holds the text of None.
BlockquoteRenderWitness ==
  /\ Rendering({"Blockquote"})
  /\ heap[call.self].author = PyNone
  /\ heap[call.self].source = PyStr(<<"A">>)
  /\ IsInfix(<<"[", "q", "u", "o", "t", "e", ",", " ", "N", "o", "n", "e", ",", " ", "A", "]">>,
             ret.s)

(***************************************************************************)
(* C7, as claimed: for a list of k items render() has exactly k lines, the *)
(* i-th being the list's prefix ('* ' or '. ') followed by the text        *)
(* conversion of the i-th item, for every k.                               *)
(***************************************************************************)
ListPrefix(o) == IF o.kind = "UnorderedList" THEN <<"*", " ">> ELSE <<".", " ">>

Prefixed(o) == [i \in 1..Len(o.items) |-> PyStr(ListPrefix(o) \o Format(o.items[i]))]

ListRenderHasOneLinePerItem ==
  Rendering({"UnorderedList", "OrderedList"}) =>
    /\ IsText(ret)
    /\ LinesOf(ret.s) = [i \in 1..Len(heap[call.self].items) |->
                           Prefixed(heap[call.self])[i].s]

(***************************************************************************)
(* C7, amended: render() is the newline-join, in input order and without a *)
(* trailing newline, of the k texts prefix + text conversion of the i-th   *)
(* item (the empty text for k = 0); it has exactly k lines, the i-th being *)
(* that text, when no item's text conversion contains a newline.           *)
(***************************************************************************)
ListRenderJoinsPrefixedItems ==
  Rendering({"UnorderedList", "OrderedList"}) =>
    LET o == heap[call.self]
        k == Len(o.items)
        oneline == \A i \in 1..k : ~IsInfix(<<"\n">>, Format(o.items[i]))
    IN /\ IsText(ret)
       /\ ret.s = NewlineJoined(Prefixed(o), k)
       /\ (k = 0 => ret.s = <<>>)
       /\ oneline =>
            /\ Len(LinesOf(ret.s)) = k
            /\ \A i \in 1..k : LinesOf(ret.s)[i] = ListPrefix(o) \o Format(o.items[i])

\* An ordered list of two items, one of them a number, is rendered.
ListRenderWitness ==
  /\ Rendering({"OrderedList"})
  /\ Len(heap[call.self].items) = 2
  /\ heap[call.self].items[2] = PyInt(12)
  /\ heap[call.self].items[1] = PyStr(<<"a">>)
  /\ ret = PyStr(<<".", " ", "a", "\n", ".", " ", "1", "2">>)

(***************************************************************************)
(* C8: for every element class, str(node) equals node.render(); stated for *)
(* the nodes whose render() returns text.                                  *)
(***************************************************************************)
StrEqualsRender ==
  (call.op = "str" /\ IsText(RenderOf(heap, call.self))) =>
    ret = RenderOf(heap, call.self)

(***************************************************************************)
(* C9: render() is total: whatever field values the constructor was given, *)
(* it never raises an error and returns text.                              *)
(***************************************************************************)
RenderIsTotal == call.op = "render" => (~IsRaise(ret) /\ IsText(ret))

====
